---- MODULE Spec2Model ----
(***************************************************************************)
(* A model of the medical-report RAG backend (src/rag_backend.py) and of  *)
(* the analyze flow that drives it (src/app.py).                          *)
(*                                                                         *)
(* Strings are sequences of one-character strings.  Embedding vectors are *)
(* short tuples of integers, compared by squared Euclidean distance.      *)
(***************************************************************************)
EXTENDS Integers, Sequences, FiniteSets, TLC

(***************************************************************************)
(* Bounds of the model.                                                    *)
(***************************************************************************)
MaxTextLen == 2        \* longest text handed to chunk_text by a direct caller
MaxChunkSize == 2      \* chunk_size ranges over 1..MaxChunkSize, overlap over 0..MaxChunkSize
MaxTopK == 2           \* top_k ranges over -1..MaxTopK

Chars == {"a", "b", " "}
Whitespace == {" ", "\n"}
Queries == {<<"a">>, <<"b">>}

Min(x, y) == IF x < y THEN x ELSE y
Max(x, y) == IF x > y THEN x ELSE y

TextsUpTo(n) == UNION {[1..k -> Chars] : k \in 0..n}

(***************************************************************************)
(* str.strip(): drop leading and trailing whitespace.                     *)
(***************************************************************************)
RECURSIVE LeadingSpaces(_)
LeadingSpaces(s) ==
    IF s = <<>> \/ Head(s) \notin Whitespace THEN 0
    ELSE 1 + LeadingSpaces(Tail(s))

RECURSIVE TrailingSpaces(_)
TrailingSpaces(s) ==
    IF s = <<>> \/ s[Len(s)] \notin Whitespace THEN 0
    ELSE 1 + TrailingSpaces(SubSeq(s, 1, Len(s) - 1))

Strip(s) ==
    IF LeadingSpaces(s) = Len(s) THEN <<>>
    ELSE SubSeq(s, LeadingSpaces(s) + 1, Len(s) - TrailingSpaces(s))

(***************************************************************************)
(* chunk_text.  Offsets are 0-based and windows half-open, as in Python.  *)
(***************************************************************************)
StepIgnoringOverlap(chunk_size, overlap) == chunk_size

Step(chunk_size, overlap) == chunk_size - overlap

\* range(0, len, step) for step # 0: the start offsets, in order.
RangeStarts(len, step) ==
    IF step > 0
    THEN [j \in 1..((len + step - 1) \div step) |-> (j - 1) * step]
    ELSE <<>>

\* text[i:i + chunk_size] as the span it covers.
Window(text, i, chunk_size) ==
    [start |-> i, stop |-> Min(i + chunk_size, Len(text))]

Slice(text, w) == SubSeq(text, w.start + 1, w.stop)

\* The windows of the loop, one per start offset.
Windows(text, chunk_size, overlap) ==
    LET starts == RangeStarts(Len(text), Step(chunk_size, overlap))
    IN  [j \in DOMAIN starts |-> Window(text, starts[j], chunk_size)]

\* The span of a window that survives chunk.strip().
Trimmed(text, w) ==
    LET s == Slice(text, w)
    IN  IF Strip(s) = <<>> THEN [start |-> w.start, stop |-> w.start]
        ELSE [start |-> w.start + LeadingSpaces(s),
              stop  |-> w.stop - TrailingSpaces(s)]

NonBlank(text, w) == Strip(Slice(text, w)) # <<>>

RECURSIVE KeepNonBlank(_, _)
KeepNonBlank(text, ws) ==
    IF ws = <<>> THEN <<>>
    ELSE IF NonBlank(text, Head(ws))
         THEN <<Head(ws)>> \o KeepNonBlank(text, Tail(ws))
         ELSE KeepNonBlank(text, Tail(ws))

\* The windows whose stripped content is appended to the chunk list.
EmittedWindows(text, chunk_size, overlap) ==
    KeepNonBlank(text, Windows(text, chunk_size, overlap))

\* The list chunk_text builds (step # 0).
ChunkList(text, chunk_size, overlap) ==
    LET ws == EmittedWindows(text, chunk_size, overlap)
    IN  [j \in DOMAIN ws |-> Strip(Slice(text, ws[j]))]

(***************************************************************************)
(* create_embeddings.  The embedding model is an external collaborator: a *)
(* deterministic map from a string to a vector of fixed dimension.  Here  *)
(* the vector counts the letters of the string.                           *)
(***************************************************************************)
Count(s, c) == Cardinality({i \in DOMAIN s : s[i] = c})

Encode(s) == <<Count(s, "a"), Count(s, "b")>>

create_embeddings(chunk_list) == [j \in DOMAIN chunk_list |-> Encode(chunk_list[j])]

(***************************************************************************)
(* The vector store: self.vector_store is None until the first build.     *)
(***************************************************************************)
NoStore == [built |-> FALSE, vecs |-> <<>>]

build_appending(store, embeddings) ==
    [built |-> TRUE, vecs |-> store.vecs \o embeddings]

\* A fresh IndexFlatL2 holding the rows of `embeddings` (an empty array has
\* no rows to add and leaves the fresh index empty).
build_vector_store(store, embeddings) ==
    [built |-> TRUE, vecs |-> embeddings]

(***************************************************************************)
(* IndexFlatL2.search: the labels of the k nearest stored vectors by      *)
(* squared L2 distance, nearest first, padded with -1 when fewer than k   *)
(* vectors are stored.  Ties are broken by the library.                   *)
(***************************************************************************)
Dist(u, v) == (u[1] - v[1]) * (u[1] - v[1]) + (u[2] - v[2]) * (u[2] - v[2])

Nearest(vecs, q, m) ==
    {s \in [1..m -> DOMAIN vecs] :
        /\ \A i, j \in 1..m : i < j =>
              /\ s[i] # s[j]
              /\ Dist(vecs[s[i]], q) <= Dist(vecs[s[j]], q)
        /\ \A x \in DOMAIN vecs :
              (\A i \in 1..m : s[i] # x) =>
                  \A i \in 1..m : Dist(vecs[s[i]], q) <= Dist(vecs[x], q)}

\* 0-based labels, as the library returns them.
Search(vecs, q, k) ==
    LET m == Min(k, Len(vecs))
    IN  {[i \in 1..k |-> IF i <= m THEN s[i] - 1 ELSE -1] : s \in Nearest(vecs, q, m)}

(***************************************************************************)
(* retrieve_relevant_chunks: the outcomes of one call.                    *)
(***************************************************************************)
Outcome(status, value) == [status |-> status, value |-> value]

\* self.chunks[i] for a Python index i (negative indices count from the end).
PyIndexOk(list, i) == -Len(list) <= i /\ i < Len(list)
PyItem(list, i) == IF i >= 0 THEN list[i + 1] ELSE list[Len(list) + i + 1]

Lookup(chunk_list, labels) ==
    IF \A i \in DOMAIN labels : PyIndexOk(chunk_list, labels[i])
    THEN Outcome("ok", [i \in DOMAIN labels |-> PyItem(chunk_list, labels[i])])
    ELSE Outcome("IndexError", <<>>)

\* The k handed to the index.
ClippedK(top_k, chunk_list) == Min(top_k, Len(chunk_list))

retrieve_relevant_chunks(chunk_list, store, query, top_k) ==
    IF ~store.built THEN {Outcome("ok", <<>>)}
    ELSE LET k == ClippedK(top_k, chunk_list)
         IN  IF k < 0 THEN {Outcome("SearchError", <<>>)}
             ELSE IF k = 0 THEN {Outcome("SearchError", <<>>), Outcome("ok", <<>>)}
             ELSE {Lookup(chunk_list, labels) : labels \in Search(store.vecs, Encode(query), k)}

(***************************************************************************)
(* State.                                                                  *)
(***************************************************************************)
VARIABLES
    chunks,        \* self.chunks
    vector_store,  \* self.vector_store
    ret,           \* the last call on the backend: its arguments and outcome
    run,           \* the pipeline run in progress (process_report or the analyze flow)
    ck,            \* one chunk_text evaluation: its input and its windows
    ex,            \* one parameter classification: its input and its result
    px             \* one _extract_medical_parameters evaluation: its input and its result

vars == <<chunks, vector_store, ret, run, ck, ex, px>>
backend == <<chunks, vector_store, ret>>

Call(op, status, value, chunk_size, overlap, top_k, embeddings, chunks_changed, had_index) ==
    [op |-> op, status |-> status, value |-> value,
     chunk_size |-> chunk_size, overlap |-> overlap, top_k |-> top_k,
     embeddings |-> embeddings,
     chunks_changed |-> chunks_changed,   \* the call replaced a different chunk list
     had_index |-> had_index]             \* vectors were stored when the call began

NoCall == Call("none", "ok", <<>>, 0, 0, 0, <<>>, FALSE, FALSE)

Texts == TextsUpTo(MaxTextLen)

\* The chunk lists chunk_text can build for one (chunk_size, overlap).
ChunkListsBy ==
    [cs \in 1..MaxChunkSize, ov \in 0..MaxChunkSize |->
        {ChunkList(t, cs, ov) : t \in Texts}]

\* Every chunk list a caller can obtain.
ChunkLists ==
    UNION {ChunkListsBy[cs, ov] : cs \in 1..MaxChunkSize, ov \in 0..MaxChunkSize}

\* Every array create_embeddings can return for them.
EmbeddingInputs == {create_embeddings(cl) : cl \in ChunkLists}

NoRun ==
    [entry |-> "none", pc |-> "idle", raw_text |-> <<>>, readable |-> TRUE,
     chunk_size |-> 0, overlap |-> 0, top_k |-> 0,
     embeddings |-> <<>>, relevant |-> <<>>, stages |-> <<>>, outcome |-> "none"]

NoChunking ==
    [text |-> <<>>, chunk_size |-> 1, overlap |-> 0, done |-> FALSE,
     windows |-> <<>>, spans |-> <<>>, out |-> <<>>]

NoExtraction == [value_str |-> <<>>, rest |-> <<>>, done |-> FALSE, out |-> "none"]

NoLater == [entry |-> 0, gap |-> 0]
NoParameters ==
    [entry |-> 0, spelling |-> "none", token |-> <<>>, ref |-> <<>>,
     later |-> NoLater, context |-> <<>>, done |-> FALSE,
     out |-> [raised |-> FALSE, parameters |-> <<>>]]

\* __init__
BackendInit ==
    /\ chunks = <<>>
    /\ vector_store = NoStore
    /\ ret = NoCall

\* chunk_text(text, chunk_size, overlap) with a zero step: range() raises.
ChunkTextZeroStep ==
    \E cs \in 1..MaxChunkSize, ov \in 0..MaxChunkSize :
        /\ Step(cs, ov) = 0
        /\ ret' = Call("chunk_text", "ValueError", <<>>, cs, ov, 0, <<>>, FALSE,
                       vector_store.vecs # <<>>)
        /\ UNCHANGED <<chunks, vector_store, run, ck, ex, px>>

\* chunk_text(text, chunk_size, overlap) otherwise.
ChunkText ==
    \E cs \in 1..MaxChunkSize, ov \in 0..MaxChunkSize :
      \E cl \in ChunkListsBy[cs, ov] :
        /\ Step(cs, ov) # 0
        /\ chunks' = cl
        /\ ret' = Call("chunk_text", "ok", chunks', cs, ov, 0, <<>>, chunks' # chunks,
                       vector_store.vecs # <<>>)
        /\ UNCHANGED <<vector_store, run, ck, ex, px>>

\* build_vector_store(embeddings); adding an empty array may raise after the
\* fresh index is installed.
BuildVectorStore ==
    \E e \in EmbeddingInputs :
            /\ vector_store' = build_vector_store(vector_store, e)
            /\ \E st \in (IF e = <<>> THEN {"ok", "ValueError"} ELSE {"ok"}) :
                  ret' = Call("build_vector_store", st, <<>>, 0, 0, 0, e, FALSE,
                              vector_store.vecs # <<>>)
            /\ UNCHANGED <<chunks, run, ck, ex, px>>

\* retrieve_relevant_chunks(query, top_k)
Retrieve ==
    \E q \in Queries, k \in -1..MaxTopK :
        \E o \in retrieve_relevant_chunks(chunks, vector_store, q, k) :
            /\ ret' = Call("retrieve", o.status, o.value, 0, 0, k, <<>>, FALSE,
                           vector_store.vecs # <<>>)
            /\ UNCHANGED <<chunks, vector_store, run, ck, ex, px>>

Next == ChunkTextZeroStep \/ ChunkText \/ BuildVectorStore \/ Retrieve

Init ==
    /\ BackendInit
    /\ run = NoRun
    /\ ck = NoChunking
    /\ ex = NoExtraction
    /\ px = NoParameters

Spec == Init /\ [][Next]_vars

(***************************************************************************)
(* extract_text_from_pdf and _clean_text.  A document is unreadable (the  *)
(* PDF reader raises) or a sequence of page texts.                         *)
(***************************************************************************)
MaxPageLen == 1        \* longest text of one page

RECURSIVE CollapseRuns(_, _)
\* re.sub(c c+, c, s): every run of two or more c becomes one c.
CollapseRuns(s, c) ==
    IF Len(s) < 2 THEN s
    ELSE IF s[1] = c /\ s[2] = c THEN CollapseRuns(Tail(s), c)
    ELSE <<s[1]>> \o CollapseRuns(Tail(s), c)

_clean_text(text) == Strip(CollapseRuns(CollapseRuns(text, "\n"), " "))

RECURSIVE JoinPages(_)
JoinPages(pages) ==
    IF pages = <<>> THEN <<>>
    ELSE Head(pages) \o <<"\n">> \o JoinPages(Tail(pages))

extract_text_from_pdf(pages) == _clean_text(JoinPages(pages))

PageTexts == TextsUpTo(MaxPageLen)
Documents == {<<>>} \cup {<<p>> : p \in PageTexts} \cup (PageTexts \X PageTexts)

\* Every text a readable document can yield.
ExtractedTexts == {extract_text_from_pdf(d) : d \in Documents}

(***************************************************************************)
(* The pipeline: process_report, and the analyze flow of app.py.          *)
(***************************************************************************)
DefaultChunkSize == 800
DefaultOverlap == 100
ReportTopK == 5

\* The sliders of the analyze flow, scaled to the texts of the model; as in
\* the application every overlap offered is below every chunk size offered.
SliderChunkSizes == {2, 3}
SliderOverlaps == {0, 1}
SliderTopKs == 1..MaxTopK

PipelineOrder == <<"extract", "chunk", "embed", "build", "retrieve", "generate">>

NextStageRetrieveFirst(stage) ==
    CASE stage = "extract"  -> "chunk"
      [] stage = "chunk"    -> "embed"
      [] stage = "embed"    -> "retrieve"
      [] stage = "retrieve" -> "build"
      [] stage = "build"    -> "generate"
      [] OTHER              -> "done"

\* The statement that follows each stage's statement in both pipelines.
NextStage(stage) ==
    CASE stage = "extract"  -> "chunk"
      [] stage = "chunk"    -> "embed"
      [] stage = "embed"    -> "build"
      [] stage = "build"    -> "retrieve"
      [] stage = "retrieve" -> "generate"
      [] OTHER              -> "done"

Ran(stage) == [run EXCEPT !.stages = Append(@, stage)]
Abort(r, outcome) == [r EXCEPT !.pc = "done", !.outcome = outcome]
Advance(r) == [r EXCEPT !.pc = NextStage(r.pc)]

\* process_report(pdf_file) is called on the backend, whatever it holds.
StartProcessReport ==
    /\ run.pc \in {"idle", "done"}
    /\ run' = [NoRun EXCEPT !.entry = "process_report", !.pc = "extract",
                            !.chunk_size = DefaultChunkSize,
                            !.overlap = DefaultOverlap, !.top_k = ReportTopK]
    /\ UNCHANGED <<backend, ck, ex, px>>

\* The analyze button with a file uploaded: a new backend and the slider values.
StartAnalyze ==
    /\ run.pc \in {"idle", "done"}
    /\ \E cs \in SliderChunkSizes, ov \in SliderOverlaps, k \in SliderTopKs :
          run' = [NoRun EXCEPT !.entry = "app", !.pc = "extract",
                               !.chunk_size = cs, !.overlap = ov, !.top_k = k]
    /\ chunks' = <<>>
    /\ vector_store' = NoStore
    /\ ret' = NoCall
    /\ UNCHANGED <<ck, ex, px>>

\* The analyze button with no file uploaded.
AnalyzeWithoutFile ==
    /\ run.pc \in {"idle", "done"}
    /\ run' = [NoRun EXCEPT !.entry = "app", !.pc = "done", !.outcome = "no_file_message"]
    /\ UNCHANGED <<backend, ck, ex, px>>

\* Step 1 on a document the PDF reader rejects: the exception leaves the pipeline.
ExtractUnreadable ==
    /\ run.pc = "extract"
    /\ run' = Abort([Ran("extract") EXCEPT !.readable = FALSE], "raised_in_extract")
    /\ UNCHANGED <<backend, ck, ex, px>>

\* Step 1 on a readable document.  The analyze flow stops on an empty text with
\* a message; process_report goes on.
Extract ==
    /\ run.pc = "extract"
    /\ \E t \in ExtractedTexts :
          LET r == [Ran("extract") EXCEPT !.raw_text = t]
          IN  run' = IF r.entry = "app" /\ Strip(t) = <<>>
                     THEN Abort(r, "no_text_message")
                     ELSE Advance(r)
    /\ UNCHANGED <<backend, ck, ex, px>>

\* Step 2: chunk_text(raw_text, chunk_size, overlap)
Chunk ==
    /\ run.pc = "chunk"
    /\ IF Step(run.chunk_size, run.overlap) = 0
       THEN /\ run' = Abort(Ran("chunk"), "raised_in_chunk")
            /\ UNCHANGED chunks
       ELSE /\ chunks' = ChunkList(run.raw_text, run.chunk_size, run.overlap)
            /\ run' = Advance(Ran("chunk"))
    /\ UNCHANGED <<vector_store, ret, ck, ex, px>>

\* Step 3: create_embeddings(chunks)
Embed ==
    /\ run.pc = "embed"
    /\ run' = Advance([Ran("embed") EXCEPT !.embeddings = create_embeddings(chunks)])
    /\ UNCHANGED <<backend, ck, ex, px>>

\* Step 4: build_vector_store(embeddings); adding an empty array may raise.
Build ==
    /\ run.pc = "build"
    /\ vector_store' = build_vector_store(vector_store, run.embeddings)
    /\ \/ run' = Advance(Ran("build"))
       \/ /\ run.embeddings = <<>>
          /\ run' = Abort(Ran("build"), "raised_in_build")
    /\ UNCHANGED <<chunks, ret, ck, ex, px>>

\* Step 5: retrieve_relevant_chunks(query, top_k)
RetrieveStage ==
    /\ run.pc = "retrieve"
    /\ \E q \in Queries :
        \E o \in retrieve_relevant_chunks(chunks, vector_store, q, run.top_k) :
          run' = IF o.status = "ok"
                 THEN Advance([Ran("retrieve") EXCEPT !.relevant = o.value])
                 ELSE Abort(Ran("retrieve"), "raised_in_retrieve")
    /\ UNCHANGED <<backend, ck, ex, px>>

\* Step 6: the report is rendered from the retrieved chunks.
Generate ==
    /\ run.pc = "generate"
    /\ run' = [Advance(Ran("generate")) EXCEPT !.outcome = "report"]
    /\ UNCHANGED <<backend, ck, ex, px>>

PipelineNext ==
    \/ StartProcessReport \/ StartAnalyze \/ AnalyzeWithoutFile
    \/ ExtractUnreadable \/ Extract \/ Chunk \/ Embed \/ Build
    \/ RetrieveStage \/ Generate

SpecPipeline == Init /\ [][PipelineNext]_vars

(***************************************************************************)
(* Claims about the backend's session state (specification Spec).         *)
(***************************************************************************)

\* The stored vectors are the embeddings of the chunk list now held, row by row.
Aligned ==
    /\ vector_store.built
    /\ vector_store.vecs = create_embeddings(chunks)

\* C1: a retrieval through a built index either finds the stored vectors
\* aligned 1:1 with the current chunk list or fails with StaleIndex.
C1_StaleIndexSurfaced ==
    (ret.op = "retrieve" /\ ret.had_index /\ ret.value # <<>>) =>
        (Aligned \/ ret.status = "StaleIndex")

\* C2: a retrieval on a backend whose index was never built signals
\* IndexNotBuilt instead of returning an empty list.
C2_UnbuiltSignalsIndexNotBuilt ==
    (ret.op = "retrieve" /\ ~vector_store.built) => ret.status = "IndexNotBuilt"

\* The ways a call can signal a rejected configuration: the error the claim
\* names, or the ValueError Python raises for a bad argument.
Rejections == {"InvalidConfiguration", "ValueError"}

\* C3: chunk_text with overlap >= chunk_size fails with InvalidConfiguration,
\* returns no chunk list and leaves the session chunk list as it was.
C3_BadOverlapRejected ==
    (ret.op = "chunk_text" /\ ret.overlap >= ret.chunk_size) =>
        /\ ret.status \in Rejections
        /\ ret.value = <<>>
        /\ ~ret.chunks_changed

\* C6: with an index built from the N chunks held (N >= 1), a retrieval returns
\* exactly min(k, N) chunks for k >= 1 and an empty result, without error, for
\* k <= 0.
C6_RetrievalCount ==
    (ret.op = "retrieve" /\ Aligned /\ chunks # <<>>) =>
        /\ ret.status = "ok"
        /\ Len(ret.value) = (IF ret.top_k >= 1 THEN Min(ret.top_k, Len(chunks)) ELSE 0)

\* C7: after a build call the index holds exactly the vectors of that call, in
\* number and content, whatever an earlier build had stored.
C7_BuildReplacesIndex ==
    ret.op = "build_vector_store" =>
        /\ vector_store.built
        /\ vector_store.vecs = ret.embeddings

\* C7 witness: a build over an index that already held vectors, which stored
\* a non-empty array.
C7_Witness ==
    /\ ret.op = "build_vector_store"
    /\ ret.had_index
    /\ ret.embeddings # <<>>
    /\ vector_store.vecs = ret.embeddings

(***************************************************************************)
(* Claims about the pipeline (specification SpecPipeline).                *)
(***************************************************************************)

\* The extraction step of this run ended with an unreadable document or with
\* a text that is empty once whitespace is stripped.
NothingExtracted ==
    /\ run.stages # <<>>
    /\ (~run.readable \/ Strip(run.raw_text) = <<>>)

\* The ways a run reports a failed extraction: the reader's exception leaving
\* the pipeline, or the message of the analyze flow.
ExtractionFailures == {"raised_in_extract", "no_text_message"}

\* C4: when the extracted text is empty or the document unreadable, the run
\* ends in an extraction failure with no stage run after the extraction and
\* no report produced.
C4_EmptyTextShortCircuits ==
    NothingExtracted =>
        /\ run.stages = <<"extract">>
        /\ run.outcome # "report"
        /\ run.pc = "done" => run.outcome \in ExtractionFailures

IsPrefix(s, t) == Len(s) <= Len(t) /\ s = SubSeq(t, 1, Len(s))

RetrievalStarted ==
    run.pc = "retrieve" \/ \E i \in DOMAIN run.stages : run.stages[i] = "retrieve"

\* C5: the stages of a run execute in the order extract, chunk, embed, build,
\* retrieve, generate, and when retrieval starts the index has been built, in
\* this run, from the chunks this run made of its text.
C5_StagesInOrder ==
    /\ IsPrefix(run.stages, PipelineOrder)
    /\ RetrievalStarted =>
          /\ IsPrefix(<<"extract", "chunk", "embed", "build">>, run.stages)
          /\ chunks = ChunkList(run.raw_text, run.chunk_size, run.overlap)
          /\ run.embeddings = create_embeddings(chunks)
          /\ vector_store.built
          /\ vector_store.vecs = run.embeddings

\* C5 witness: a run that went through every stage, over more than one chunk,
\* and produced its report.
C5_Witness ==
    /\ run.pc = "done"
    /\ run.outcome = "report"
    /\ run.stages = PipelineOrder
    /\ Len(chunks) >= 2
    /\ run.relevant # <<>>

(***************************************************************************)
(* chunk_text as a function of its arguments (specification SpecChunk):   *)
(* every text up to ChunkTextLen characters, every valid configuration    *)
(* 0 <= overlap < chunk_size <= ChunkSizeMax.                              *)
(***************************************************************************)
ChunkTextLen == 5
ChunkSizeMax == 4

ChunkInit ==
    /\ BackendInit
    /\ run = NoRun
    /\ ex = NoExtraction
    /\ px = NoParameters
    /\ \E t \in TextsUpTo(ChunkTextLen), cs \in 1..ChunkSizeMax :
         \E ov \in 0..(cs - 1) :
            ck = [NoChunking EXCEPT !.text = t, !.chunk_size = cs, !.overlap = ov]

\* chunk_text(text, chunk_size, overlap), with the windows it went through.
ApplyChunkText ==
    /\ ~ck.done
    /\ LET ws == EmittedWindows(ck.text, ck.chunk_size, ck.overlap)
       IN  ck' = [ck EXCEPT
                    !.done = TRUE,
                    !.windows = Windows(ck.text, ck.chunk_size, ck.overlap),
                    !.spans = [j \in DOMAIN ws |-> Trimmed(ck.text, ws[j])],
                    !.out = ChunkList(ck.text, ck.chunk_size, ck.overlap)]
    /\ UNCHANGED <<backend, run, ex, px>>

ChunkNext == ApplyChunkText

SpecChunk == ChunkInit /\ [][ChunkNext]_vars

\* Offset p of the text lies in one of the spans.
Covered(p, spans) ==
    \E j \in DOMAIN spans : spans[j].start <= p /\ p < spans[j].stop

\* The number of text offsets two spans have in common.
Shared(u, v) == Max(0, Min(u.stop, v.stop) - Max(u.start, v.start))

\* C8 as stated: the chunks cover every character of the text, and every two
\* consecutive chunks share exactly `overlap` characters, except possibly the
\* pair that ends in the final chunk.
C8_CoverageAndOverlap ==
    ck.done =>
        /\ \A p \in 0..(Len(ck.text) - 1) : Covered(p, ck.spans)
        /\ \A j \in 1..(Len(ck.spans) - 2) :
              Shared(ck.spans[j], ck.spans[j + 1]) = ck.overlap

\* C8 amended: every non-whitespace character of the text lies in some chunk,
\* each chunk is its window without the whitespace at its ends, and every two
\* consecutive windows of which the first has the full chunk_size length share
\* exactly `overlap` characters before trimming.
C8_NonBlankCoverageAndWindowOverlap ==
    ck.done =>
        /\ \A p \in 0..(Len(ck.text) - 1) :
              ck.text[p + 1] \notin Whitespace => Covered(p, ck.spans)
        /\ Len(ck.out) = Len(ck.spans)
        /\ \A j \in DOMAIN ck.spans :
              /\ ck.out[j] = Slice(ck.text, ck.spans[j])
              /\ ck.out[j] # <<>>
              /\ \E i \in DOMAIN ck.windows :
                    /\ ck.windows[i].start <= ck.spans[j].start
                    /\ ck.spans[j].stop <= ck.windows[i].stop
        /\ \A j \in 1..(Len(ck.windows) - 1) :
              ck.windows[j].stop - ck.windows[j].start = ck.chunk_size =>
                  Shared(ck.windows[j], ck.windows[j + 1]) = ck.overlap

\* C8 witness: a chunking with a positive overlap, a window dropped as blank,
\* and two consecutive clipped windows before the final pair.
C8_Witness ==
    /\ ck.done
    /\ ck.overlap >= 1
    /\ Len(ck.out) < Len(ck.windows)
    /\ \E j \in 1..(Len(ck.windows) - 2) :
          /\ ck.windows[j].stop - ck.windows[j].start < ck.chunk_size
          /\ Shared(ck.windows[j], ck.windows[j + 1]) < ck.overlap
    /\ \E j \in 1..(Len(ck.windows) - 1) :
          /\ ck.windows[j].stop - ck.windows[j].start = ck.chunk_size
          /\ Shared(ck.windows[j], ck.windows[j + 1]) = ck.overlap

(***************************************************************************)
(* _extract_medical_parameters: the classification of one matched value   *)
(* against the reference found in the text that follows it.               *)
(***************************************************************************)
Digits == <<"0", "1", "2", "3", "4", "5", "6", "7", "8", "9">>
EnDash == "en-dash"

IsDigit(c) == \E d \in DOMAIN Digits : Digits[d] = c
DigitValue(c) == (CHOOSE d \in DOMAIN Digits : Digits[d] = c) - 1
IsTokenChar(c) == IsDigit(c) \/ c \in {".", ","}      \* [\d.,]
IsSpace(c) == c \in {" ", "\n", "\t"}                  \* \s
IsDash(c) == c \in {"-", EnDash}                       \* [–-]

RECURSIVE TokenEnd(_, _)
\* The index after the longest run of token characters starting at i.
TokenEnd(s, i) ==
    IF i <= Len(s) /\ IsTokenChar(s[i]) THEN TokenEnd(s, i + 1) ELSE i

RECURSIVE SkipSpaces(_, _)
SkipSpaces(s, i) ==
    IF i <= Len(s) /\ IsSpace(s[i]) THEN SkipSpaces(s, i + 1) ELSE i

NoMatch == [found |-> FALSE, g1 |-> <<>>, g2 |-> <<>>]

\* ([\d.,]+)\s*[–-]\s*([\d.,]+) anchored at i.
RangeAt(s, i) ==
    IF ~IsTokenChar(s[i]) THEN NoMatch
    ELSE LET e == TokenEnd(s, i)
             d == SkipSpaces(s, e)
             t == SkipSpaces(s, d + 1)
         IN  IF d <= Len(s) /\ IsDash(s[d]) /\ t <= Len(s) /\ IsTokenChar(s[t])
             THEN [found |-> TRUE, g1 |-> SubSeq(s, i, e - 1),
                   g2 |-> SubSeq(s, t, TokenEnd(s, t) - 1)]
             ELSE NoMatch

\* sym\s*([\d.,]+) anchored at i.
BoundAt(s, i, sym) ==
    LET t == SkipSpaces(s, i + 1)
    IN  IF s[i] = sym /\ t <= Len(s) /\ IsTokenChar(s[t])
        THEN [found |-> TRUE, g1 |-> SubSeq(s, t, TokenEnd(s, t) - 1), g2 |-> <<>>]
        ELSE NoMatch

\* re.search: the match at the leftmost position that has one.
SearchRange(s) ==
    LET hits == {i \in DOMAIN s : RangeAt(s, i).found}
    IN  IF hits = {} THEN NoMatch
        ELSE RangeAt(s, CHOOSE i \in hits : \A j \in hits : i <= j)

SearchBound(s, sym) ==
    LET hits == {i \in DOMAIN s : BoundAt(s, i, sym).found}
    IN  IF hits = {} THEN NoMatch
        ELSE BoundAt(s, CHOOSE i \in hits : \A j \in hits : i <= j, sym)

Contains(s, c) == \E i \in DOMAIN s : s[i] = c

\* token.replace(",", "")
RECURSIVE RemoveCommas(_)
RemoveCommas(s) ==
    IF s = <<>> THEN <<>>
    ELSE IF Head(s) = "," THEN RemoveCommas(Tail(s))
    ELSE <<Head(s)>> \o RemoveCommas(Tail(s))

RECURSIVE DigitsValue(_)
\* The integer written by the digits of s, its decimal point ignored.
DigitsValue(s) ==
    IF s = <<>> THEN 0
    ELSE IF s[Len(s)] = "." THEN DigitsValue(SubSeq(s, 1, Len(s) - 1))
    ELSE 10 * DigitsValue(SubSeq(s, 1, Len(s) - 1)) + DigitValue(s[Len(s)])

RECURSIVE Pow10(_)
Pow10(n) == IF n = 0 THEN 1 ELSE 10 * Pow10(n - 1)

\* float(s) for a string without sign, exponent or space: it raises unless s
\* is made of digits and points, with a digit and at most one point.  The number is m / 10^f.
ParseFloat(s) ==
    LET points == {i \in DOMAIN s : s[i] = "."}
        ok == /\ \A i \in DOMAIN s : IsDigit(s[i]) \/ s[i] = "."
              /\ \E i \in DOMAIN s : IsDigit(s[i])
              /\ Cardinality(points) <= 1
    IN  IF ~ok THEN [ok |-> FALSE, m |-> 0, f |-> 0]
        ELSE [ok |-> TRUE, m |-> DigitsValue(s),
              f |-> IF points = {} THEN 0 ELSE Len(s) - (CHOOSE i \in points : TRUE)]

Less(x, y) == x.m * Pow10(y.f) < y.m * Pow10(x.f)

RangeStatusInclusive(val, lo, hi) ==
    IF ~Less(lo, val) THEN "Low" ELSE IF ~Less(val, hi) THEN "High" ELSE "Normal"

\* Case 1: below min is Low, else above max is High.
RangeStatus(val, lo, hi) ==
    IF Less(val, lo) THEN "Low" ELSE IF Less(hi, val) THEN "High" ELSE "Normal"

UpperBoundStatusStrict(val, ref) == IF Less(ref, val) THEN "High" ELSE "Normal"

\* Case 2: at or above the bound is High.
UpperBoundStatus(val, ref) == IF ~Less(val, ref) THEN "High" ELSE "Normal"

\* Case 3: at or below the bound is Low.
LowerBoundStatus(val, ref) == IF ~Less(ref, val) THEN "Low" ELSE "Normal"

Classified(form, m, status) ==
    [form |-> form, g1 |-> m.g1, g2 |-> m.g2, raised |-> FALSE,
     recorded |-> TRUE, status |-> status]
Raised(form, m) ==
    [form |-> form, g1 |-> m.g1, g2 |-> m.g2, raised |-> TRUE,
     recorded |-> FALSE, status |-> "none"]
Omitted ==
    [form |-> "none", g1 |-> <<>>, g2 |-> <<>>, raised |-> FALSE,
     recorded |-> FALSE, status |-> "none"]

\* The body of the loop for one catalog entry whose value pattern matched with
\* group(1) = token, remaining_text = rest.
Classify(token, rest) ==
    LET val == ParseFloat(RemoveCommas(token))
        rm  == SearchRange(rest)
        lt  == SearchBound(rest, "<")
        gt  == SearchBound(rest, ">")
    IN  IF rm.found THEN
            LET lo == ParseFloat(RemoveCommas(rm.g1))
                hi == ParseFloat(RemoveCommas(rm.g2))
            IN  IF lo.ok /\ hi.ok /\ val.ok
                THEN Classified("range", rm, RangeStatus(val, lo, hi))
                ELSE Raised("range", rm)
        ELSE IF Contains(rest, "<") THEN
            IF ~lt.found THEN Omitted
            ELSE LET ref == ParseFloat(RemoveCommas(lt.g1))
                 IN  IF ref.ok /\ val.ok
                     THEN Classified("lt", lt, UpperBoundStatus(val, ref))
                     ELSE Raised("lt", lt)
        ELSE IF Contains(rest, ">") THEN
            IF ~gt.found THEN Omitted
            ELSE LET ref == ParseFloat(RemoveCommas(gt.g1))
                 IN  IF ref.ok /\ val.ok
                     THEN Classified("gt", gt, LowerBoundStatus(val, ref))
                     ELSE Raised("gt", gt)
        ELSE Omitted

(***************************************************************************)
(* Specification SpecExtract: every value token up to MaxValueLen          *)
(* characters against every following text up to MaxRestLen characters.   *)
(***************************************************************************)
MaxValueLen == 2
MaxRestLen == 3

ValueChars == {"1", "2", ".", ","}
RestChars == {"1", "3", ".", ",", "-", EnDash, "<", ">", " "}

ValueTokens == UNION {[1..n -> ValueChars] : n \in 1..MaxValueLen}
RestTexts == UNION {[1..n -> RestChars] : n \in 0..MaxRestLen}

ExtractInit ==
    /\ BackendInit
    /\ run = NoRun
    /\ ck = NoChunking
    /\ px = NoParameters
    /\ \E v \in ValueTokens, r \in RestTexts :
          ex = [NoExtraction EXCEPT !.value_str = v, !.rest = r]

ClassifyValue ==
    /\ ~ex.done
    /\ ex' = [ex EXCEPT !.done = TRUE, !.out = Classify(ex.value_str, ex.rest)]
    /\ UNCHANGED <<backend, run, ck, px>>

ExtractNext == ClassifyValue

SpecExtract == ExtractInit /\ [][ExtractNext]_vars

(***************************************************************************)
(* Claims about the classification (specification SpecExtract).           *)
(***************************************************************************)
Value == ParseFloat(RemoveCommas(ex.value_str))
Bound1 == ParseFloat(RemoveCommas(ex.out.g1))
Bound2 == ParseFloat(RemoveCommas(ex.out.g2))

RangeMatched == ex.done /\ ex.out.recorded /\ ex.out.form = "range"

C10_InequalityBoundInclusive ==
    (ex.done /\ ex.out.recorded) =>
        /\ ex.out.form = "lt" =>
              /\ ex.out.status = "High" <=> ~Less(Value, Bound1)
              /\ ex.out.status = "Normal" <=> Less(Value, Bound1)
        /\ ex.out.form = "gt" =>
              /\ ex.out.status = "Low" <=> ~Less(Bound1, Value)
              /\ ex.out.status = "Normal" <=> Less(Bound1, Value)

\* C10 witness: a value equal to the upper bound matched after it, classified
\* High.
C10_Witness ==
    /\ ex.done
    /\ ex.out.recorded
    /\ ex.out.form = "lt"
    /\ ~Less(Value, Bound1)
    /\ ~Less(Bound1, Value)
    /\ ex.out.status = "High"

\* The reference forms, with bounds that are numbers, that occur in the text
\* following the value.
IsNumber(token) == ParseFloat(RemoveCommas(token)).ok
RangePresent ==
    LET m == SearchRange(ex.rest) IN m.found /\ IsNumber(m.g1) /\ IsNumber(m.g2)
UpperPresent ==
    LET m == SearchBound(ex.rest, "<") IN m.found /\ IsNumber(m.g1)
LowerPresent ==
    LET m == SearchBound(ex.rest, ">") IN m.found /\ IsNumber(m.g1)

\* C11: a matched parameter whose value is a number is omitted exactly when
\* none of the three reference forms occurs in the text following the value,
\* and is otherwise classified against the first form present in the order
\* range, < X, > X (so against > X whenever no range and no < X occurs there).
C11_OmittedIffNoForm ==
    (ex.done /\ ~ex.out.raised /\ IsNumber(ex.value_str)) =>
        /\ ex.out.recorded <=> (RangePresent \/ UpperPresent \/ LowerPresent)
        /\ ex.out.recorded =>
              ex.out.form = (IF RangePresent THEN "range"
                             ELSE IF UpperPresent THEN "lt" ELSE "gt")

(***************************************************************************)
(* _extract_medical_parameters as a whole: the catalog, the value pattern  *)
(* of each entry, the window after the match, and the loop over the        *)
(* catalog.                                                                *)
(***************************************************************************)
Micro == "micro-sign"

\* known_params, in insertion order.
known_params == <<
    [name |-> <<"H", "e", "m", "o", "g", "l", "o", "b", "i", "n">>,
     unit |-> <<"g", "/", "d", "L">>],
    [name |-> <<"R", "B", "C", " ", "C", "o", "u", "n", "t">>,
     unit |-> <<"m", "i", "l", "l", "i", "o", "n", "/", Micro, "L">>],
    [name |-> <<"W", "B", "C", " ", "C", "o", "u", "n", "t">>,
     unit |-> <<"/", Micro, "L">>],
    [name |-> <<"P", "l", "a", "t", "e", "l", "e", "t", " ", "C", "o", "u", "n", "t">>,
     unit |-> <<"/", Micro, "L">>],
    [name |-> <<"H", "e", "m", "a", "t", "o", "c", "r", "i", "t">>,
     unit |-> <<"%">>],
    [name |-> <<"T", "o", "t", "a", "l", " ", "B", "i", "l", "i", "r", "u", "b", "i", "n">>,
     unit |-> <<"m", "g", "/", "d", "L">>],
    [name |-> <<"A", "L", "T", " ", "(", "S", "G", "P", "T", ")">>,
     unit |-> <<"U", "/", "L">>],
    [name |-> <<"A", "S", "T", " ", "(", "S", "G", "O", "T", ")">>,
     unit |-> <<"U", "/", "L">>],
    [name |-> <<"A", "l", "k", "a", "l", "i", "n", "e", " ", "P", "h", "o", "s", "p", "h", "a", "t", "a", "s", "e">>,
     unit |-> <<"U", "/", "L">>],
    [name |-> <<"T", "o", "t", "a", "l", " ", "C", "h", "o", "l", "e", "s", "t", "e", "r", "o", "l">>,
     unit |-> <<"m", "g", "/", "d", "L">>],
    [name |-> <<"L", "D", "L", " ", "C", "h", "o", "l", "e", "s", "t", "e", "r", "o", "l">>,
     unit |-> <<"m", "g", "/", "d", "L">>],
    [name |-> <<"H", "D", "L", " ", "C", "h", "o", "l", "e", "s", "t", "e", "r", "o", "l">>,
     unit |-> <<"m", "g", "/", "d", "L">>],
    [name |-> <<"T", "r", "i", "g", "l", "y", "c", "e", "r", "i", "d", "e", "s">>,
     unit |-> <<"m", "g", "/", "d", "L">>],
    [name |-> <<"F", "a", "s", "t", "i", "n", "g", " ", "B", "l", "o", "o", "d", " ", "S", "u", "g", "a", "r">>,
     unit |-> <<"m", "g", "/", "d", "L">>],
    [name |-> <<"H", "b", "A", "1", "c">>,
     unit |-> <<"%">>]
>>

UpperCase == <<"A", "B", "C", "D", "E", "F", "G", "H", "I", "J", "K", "L", "M",
               "N", "O", "P", "Q", "R", "S", "T", "U", "V", "W", "X", "Y", "Z">>
LowerCase == <<"a", "b", "c", "d", "e", "f", "g", "h", "i", "j", "k", "l", "m",
               "n", "o", "p", "q", "r", "s", "t", "u", "v", "w", "x", "y", "z">>

ToLower ==
    [c \in {UpperCase[i] : i \in DOMAIN UpperCase} |->
        LowerCase[CHOOSE i \in DOMAIN UpperCase : UpperCase[i] = c]]

\* re.IGNORECASE: two characters match when their lower cases are equal.
Lower(c) == IF c \in DOMAIN ToLower THEN ToLower[c] ELSE c

RECURSIVE WithoutParens(_)
\* The characters the name matches literally when it is read as a pattern:
\* its parentheses delimit a group and match nothing.
WithoutParens(name) ==
    IF name = <<>> THEN <<>>
    ELSE IF Head(name) \in {"(", ")"} THEN WithoutParens(Tail(name))
    ELSE <<Head(name)>> \o WithoutParens(Tail(name))

\* The span of the name's own group, when it has one: it is group 1 of the
\* value pattern, and the numeric token is then group 2.
GroupOpen(name) == {i \in DOMAIN name : name[i] = "("}
GroupClose(name) == {i \in DOMAIN name : name[i] = ")"}
HasGroup(name) == GroupOpen(name) # {}

IsSeparator(c) == c = ":" \/ IsSpace(c)                \* [:\s]

RECURSIVE SkipSeparators(_, _)
SkipSeparators(s, i) ==
    IF i <= Len(s) /\ IsSeparator(s[i]) THEN SkipSeparators(s, i + 1) ELSE i

\* s with every character in lower case.
Fold(s) == [k \in DOMAIN s |-> Lower(s[k])]

\* The literal lit at position i of s.
LiteralAt(s, i, lit) ==
    /\ i + Len(lit) - 1 <= Len(s)
    /\ \A k \in DOMAIN lit : s[i + k - 1] = lit[k]

\* rf"{name}\s*[:\s]+([\d.,]+)\s*{re.escape(unit)}" compiled with
\* re.IGNORECASE, for each catalog entry: the literal the name stands for, the
\* span of the name's group in it, and the unit as a literal.
value_pattern ==
    [k \in DOMAIN known_params |->
        LET name == known_params[k].name IN
        [name |-> Fold(WithoutParens(name)),
         has_group |-> HasGroup(name),
         group_from |-> IF HasGroup(name)
                        THEN (CHOOSE o \in GroupOpen(name) : TRUE) - 1 ELSE 0,
         group_to |-> IF HasGroup(name)
                      THEN (CHOOSE p \in GroupClose(name) : TRUE) - 3 ELSE 0,
         unit |-> Fold(known_params[k].unit)]]

NoValueMatch == [found |-> FALSE, group1 |-> <<>>, end |-> 0]

\* The pattern anchored at position i of s, whose lower case is folded; end is
\* the number of characters of s up to the end of the match.  Group 1 is the
\* name's group when it has one, and the numeric token otherwise.
ValueAt(s, folded, i, pattern) ==
    IF ~LiteralAt(folded, i, pattern.name) THEN NoValueMatch
    ELSE LET a == i + Len(pattern.name)
             b == SkipSeparators(s, a)
             c == TokenEnd(s, b)
             d == SkipSpaces(s, c)
         IN  IF b > a /\ c > b /\ LiteralAt(folded, d, pattern.unit)
             THEN [found |-> TRUE,
                   group1 |-> IF pattern.has_group
                              THEN SubSeq(s, i + pattern.group_from,
                                          i + pattern.group_to)
                              ELSE SubSeq(s, b, c - 1),
                   end |-> d + Len(pattern.unit) - 1]
             ELSE NoValueMatch

\* re.search(value_pattern, context, re.IGNORECASE)
SearchValue(s, folded, pattern) ==
    LET hits == {i \in DOMAIN s : ValueAt(s, folded, i, pattern).found}
    IN  IF hits = {} THEN NoValueMatch
        ELSE ValueAt(s, folded, CHOOSE i \in hits : \A j \in hits : i <= j, pattern)

LookAhead == 300

RemainingTextToEnd(context, end) == SubSeq(context, end + 1, Len(context))

\* context[value_match.end():value_match.end() + 300]
RemainingText(context, end) ==
    SubSeq(context, end + 1, Min(Len(context), end + LookAhead))

\* The dictionary appended for a classified parameter.
Parameter(entry, value_str, c) ==
    [name |-> entry.name,
     value |-> value_str \o <<" ">> \o entry.unit,
     range |-> IF c.form = "range"
               THEN c.g1 \o <<" ", EnDash, " ">> \o c.g2 \o <<" ">> \o entry.unit
               ELSE <<(IF c.form = "lt" THEN "<" ELSE ">"), " ">> \o c.g1
                        \o <<" ">> \o entry.unit,
     status |-> c.status]

RECURSIVE ExtractFrom(_, _, _, _)
\* The loop over the catalog from entry k on, with the list built so far.
ExtractFrom(context, folded, k, parameters) ==
    IF k > Len(known_params) THEN [raised |-> FALSE, parameters |-> parameters]
    ELSE LET entry == known_params[k]
             value_match == SearchValue(context, folded, value_pattern[k])
         IN  IF ~value_match.found THEN ExtractFrom(context, folded, k + 1, parameters)
             ELSE LET value_str == RemoveCommas(value_match.group1)
                      c == Classify(value_str,
                                    RemainingText(context, value_match.end))
                  IN  IF c.raised THEN [raised |-> TRUE, parameters |-> <<>>]
                      ELSE IF c.recorded
                      THEN ExtractFrom(context, folded, k + 1,
                                       Append(parameters, Parameter(entry, value_str, c)))
                      ELSE ExtractFrom(context, folded, k + 1, parameters)

_extract_medical_parameters(context) ==
    ExtractFrom(context, Fold(context), 1, <<>>)

(***************************************************************************)
(* Specification SpecParams: reports that mention one catalog entry, in    *)
(* one of three spellings of its name, with a value, optionally a          *)
(* reference, and optionally a later mention of the same entry or of its   *)
(* catalog predecessor, either adjacent or beyond the window.              *)
(***************************************************************************)
Spellings == {"literal", "lower", "bare"}
ParamTokens == {<<"2">>, <<"1", ",", "2">>, <<".">>}
ParamRefs == {<<>>, <<"1", "-", "3">>, <<"<", " ", "2">>}
LaterToken == <<"3">>
LaterRef == <<"2", " ", EnDash, " ", "3">>
Gaps == {0, LookAhead}

Spell(name, spelling) ==
    IF spelling = "lower" THEN [k \in DOMAIN name |-> Lower(name[k])]
    ELSE IF spelling = "bare" THEN WithoutParens(name)
    ELSE name

\* name: token unit ref
Mention(n, spelling, token, ref) ==
    Spell(known_params[n].name, spelling) \o <<":", " ">> \o token \o <<" ">>
        \o known_params[n].unit
        \o (IF ref = <<>> THEN <<>> ELSE <<" ">> \o ref)

Filler(len) == [k \in 1..len |-> "x"]

Predecessor(n) == IF n = 1 THEN Len(known_params) ELSE n - 1

Laters(n) ==
    {NoLater} \cup {[entry |-> m, gap |-> g] : m \in {n, Predecessor(n)}, g \in Gaps}

Report(n, spelling, token, ref, later) ==
    Mention(n, spelling, token, ref)
        \o (IF later = NoLater THEN <<>>
            ELSE Filler(later.gap)
                    \o Mention(later.entry, spelling, LaterToken, LaterRef))

ParamsInit ==
    /\ BackendInit
    /\ run = NoRun
    /\ ck = NoChunking
    /\ ex = NoExtraction
    /\ \E n \in DOMAIN known_params, sp \in Spellings,
          t \in ParamTokens, r \in ParamRefs :
         \E l \in Laters(n) :
            px = [NoParameters EXCEPT
                    !.entry = n, !.spelling = sp, !.token = t, !.ref = r,
                    !.later = l, !.context = Report(n, sp, t, r, l)]

\* _extract_medical_parameters(context): it returns a list or raises
\* ValueError out of the loop.
ExtractParameters ==
    /\ ~px.done
    /\ px' = [px EXCEPT !.done = TRUE,
                        !.out = _extract_medical_parameters(px.context)]
    /\ UNCHANGED <<backend, run, ck, ex>>

ParamsNext == ExtractParameters

SpecParams == ParamsInit /\ [][ParamsNext]_vars

(***************************************************************************)
(* Claims about the whole extraction (specification SpecParams).          *)
(***************************************************************************)
Returned == px.done /\ ~px.out.raised

\* C12: for every input text the extraction returns a list; a malformed value
\* token or reference bound never makes it raise.
C12_AlwaysReturnsList ==
    px.done => ~px.out.raised

FirstEntry == known_params[px.entry]
FirstValue == RemoveCommas(px.token) \o <<" ">> \o FirstEntry.unit
EntriesNamed(name) ==
    {k \in DOMAIN px.out.parameters : px.out.parameters[k].name = name}

IsRangeText(ref) ==
    /\ ref # <<>>
    /\ RangeAt(ref, 1).found
    /\ IsNumber(RangeAt(ref, 1).g1)
    /\ IsNumber(RangeAt(ref, 1).g2)

\* C13: a text with the literal name of a catalog entry, a separator, a numeric
\* token and the literal unit, followed by a range, yields an entry with that
\* name whose value is the token without its commas, followed by the unit.
C13_LiteralNameYieldsEntry ==
    (px.done /\ px.spelling = "literal" /\ IsNumber(px.token) /\ IsRangeText(px.ref)) =>
        /\ ~px.out.raised
        /\ \E k \in EntriesNamed(FirstEntry.name) :
              px.out.parameters[k].value = FirstValue

CatalogIndex(name) == CHOOSE k \in DOMAIN known_params : known_params[k].name = name

\* C14: the list returned holds at most one entry per catalog name, in catalog
\* order; the entry of a name carries the value of the first mention of that
\* name; and when the first mention has no reference within the window after
\* it, the name has no entry, whether or not a later mention has a reference.
C14_FirstOccurrenceOnly ==
    Returned =>
        /\ \A i, j \in DOMAIN px.out.parameters :
              i < j => CatalogIndex(px.out.parameters[i].name)
                         < CatalogIndex(px.out.parameters[j].name)
        /\ \A k \in EntriesNamed(FirstEntry.name) :
              px.out.parameters[k].value = FirstValue
        /\ (px.ref = <<>> /\ (px.later = NoLater \/ px.later.gap = LookAhead)) =>
              EntriesNamed(FirstEntry.name) = {}

\* C14 witness: the first mention has no reference, a later mention of the
\* same entry beyond the window has a range that alone would be recorded, and
\* the list returned has no entry.
C14_Witness ==
    /\ Returned
    /\ px.ref = <<>>
    /\ IsNumber(px.token)
    /\ px.later = [entry |-> px.entry, gap |-> LookAhead]
    /\ _extract_medical_parameters(
           Mention(px.entry, px.spelling, LaterToken, LaterRef)).parameters # <<>>
    /\ px.out.parameters = <<>>

====
